---- MODULE Spec2Model ----
(***************************************************************************)
(* Poll and vote server actions of alx-polly                               *)
(* (src/app/lib/actions/auth-actions.ts, lines 193-614) over the polls and *)
(* votes tables of the data store.  Lines 622-895 of the file declare the  *)
(* handlers a second time, with the same code except at the end of         *)
(* updatePoll.  The AuthProvider component                                *)
(* (src/app/lib/context/auth-context.tsx) is modelled in the variable      *)
(* auth.                                                                   *)
(*                                                                         *)
(* A string is a sequence of one-character strings.  The polls table is a  *)
(* sequence of rows whose index is the row's id; the votes table is a bag  *)
(* of rows (vote ids are never read by the handlers).                      *)
(***************************************************************************)
EXTENDS Integers, Sequences, FiniteSets, Bags, TLC

VARIABLES polls, votes, ret, okVotes, form, calls, auth

vars == <<polls, votes, ret, okVotes, form, calls, auth>>

(***************************************************************************)
(* Bounds of the model.                                                    *)
(***************************************************************************)
MaxPolls == 1
MaxVotes == 2
MaxFormOptions == 2
MaxListPolls == 3
MaxEvents == 3

(***************************************************************************)
(* Program constants.                                                      *)
(***************************************************************************)
MaxTitleLen == 500
MinOptions == 2
MaxOptions == 10
MaxOptionLen == 200

(***************************************************************************)
(* Strings: String.prototype.trim, length.                                 *)
(***************************************************************************)
SPACE == " "

Rep(c, n) == [i \in 1..n |-> c]

RECURSIVE TrimStart(_)
TrimStart(s) ==
    IF s # <<>> /\ Head(s) = SPACE THEN TrimStart(Tail(s)) ELSE s

RECURSIVE TrimEnd(_)
TrimEnd(s) ==
    IF s # <<>> /\ s[Len(s)] = SPACE THEN TrimEnd(SubSeq(s, 1, Len(s) - 1)) ELSE s

Trim(s) == TrimEnd(TrimStart(s))

(***************************************************************************)
(* Error messages returned by the handlers, and the error kinds of the     *)
(* specification they fall under.                                          *)
(***************************************************************************)
NoError == "null"
E_QuestionRequired == "Question is required."
E_QuestionTooLong == "Question is too long. Maximum 500 characters allowed."
E_TooFewOptions == "Please provide at least two options."
E_TooManyOptions == "Too many options. Maximum 10 options allowed."
E_OptionEmpty == "Option cannot be empty."
E_OptionTooLong == "Option is too long. Maximum 200 characters allowed."
E_DuplicateOptions == "Duplicate options are not allowed."
E_LoginCreate == "You must be logged in to create a poll."
E_LoginUpdate == "You must be logged in to update a poll."
E_AuthRequired == "Authentication required"
E_NotAuthenticated == "Not authenticated"
E_PollNotFound == "Poll not found"
E_NoSingleRow == "JSON object requested, multiple (or no) rows returned"
E_UnauthorizedDelete == "Unauthorized: You can only delete your own polls"
E_UnauthorizedUpdate == "Unauthorized: You can only update your own polls"
E_InvalidOption == "Invalid option selected"
E_AlreadyVoted == "You have already voted on this poll"
E_Store == "data store error message"
E_Auth == "identity provider error message"

InvalidInput ==
    {E_QuestionRequired, E_QuestionTooLong, E_TooFewOptions, E_TooManyOptions,
     E_OptionEmpty, E_OptionTooLong, E_DuplicateOptions, E_InvalidOption}
Unauthenticated == {E_LoginCreate, E_LoginUpdate, E_AuthRequired, E_NotAuthenticated}
Unauthorized == {E_UnauthorizedDelete, E_UnauthorizedUpdate}
NotFound == {E_PollNotFound, E_NoSingleRow}
DuplicateVote == {E_AlreadyVoted}
StoreFailure == {E_Store, E_Auth}

(***************************************************************************)
(* Identities: supabase.auth.getUser() yields a user, or no user, or no    *)
(* user together with an error.                                            *)
(***************************************************************************)
Users == {"u1", "u2"}
NoUser == "none"
AuthErr == "autherr"
Identities == Users \cup {NoUser, AuthErr}
NullUser == "null"

UserOf(id) == IF id \in Users THEN id ELSE NullUser
UserErrorOf(id) == id = AuthErr

(***************************************************************************)
(* Form validation shared by createPoll and updatePoll.                    *)
(***************************************************************************)
FilterBoolean(rawOptions) == SelectSeq(rawOptions, LAMBDA o : o # <<>>)

RECURSIVE UniqueFrom(_, _)
UniqueFrom(seq, acc) ==
    IF seq = <<>> THEN acc
    ELSE UniqueFrom(Tail(seq),
                    IF \E i \in 1..Len(acc) : acc[i] = Head(seq)
                    THEN acc ELSE Append(acc, Head(seq)))

\* the options made unique without trimming them
UniqueOptionsRaw(options) == UniqueFrom(options, <<>>)

UniqueOptions(options) ==
    UniqueFrom([i \in 1..Len(options) |-> Trim(options[i])], <<>>)

\* the check of an option without the length limit
OptionErrorNoLength(option) ==
    IF Len(option) = 0 THEN E_OptionEmpty ELSE NoError

OptionError(option) ==
    IF Len(option) = 0 THEN E_OptionEmpty
    ELSE IF Len(option) > MaxOptionLen THEN E_OptionTooLong
    ELSE NoError

ValidateOptions(options) ==
    IF \E i \in 1..Len(options) : OptionError(Trim(options[i])) # NoError
    THEN LET i == CHOOSE k \in 1..Len(options) :
                      /\ OptionError(Trim(options[k])) # NoError
                      /\ \A j \in 1..(k - 1) : OptionError(Trim(options[j])) = NoError
         IN  OptionError(Trim(options[i]))
    ELSE NoError

\* the validation with the upper limit on options off by one
ValidateFormStrictMax(question, rawOptions) ==
    LET options == FilterBoolean(rawOptions) IN
    IF Len(question) = 0 \/ Len(Trim(question)) = 0 THEN E_QuestionRequired
    ELSE IF Len(question) > MaxTitleLen THEN E_QuestionTooLong
    ELSE IF Len(options) < MinOptions THEN E_TooFewOptions
    ELSE IF Len(options) >= MaxOptions THEN E_TooManyOptions
    ELSE IF ValidateOptions(options) # NoError THEN ValidateOptions(options)
    ELSE IF Len(UniqueOptions(options)) # Len(options) THEN E_DuplicateOptions
    ELSE NoError

ValidateForm(question, rawOptions) ==
    LET options == FilterBoolean(rawOptions) IN
    IF Len(question) = 0 \/ Len(Trim(question)) = 0 THEN E_QuestionRequired
    ELSE IF Len(question) > MaxTitleLen THEN E_QuestionTooLong
    ELSE IF Len(options) < MinOptions THEN E_TooFewOptions
    ELSE IF Len(options) > MaxOptions THEN E_TooManyOptions
    ELSE IF ValidateOptions(options) # NoError THEN ValidateOptions(options)
    ELSE IF Len(UniqueOptions(options)) # Len(options) THEN E_DuplicateOptions
    ELSE NoError

(***************************************************************************)
(* Queries on the store.                                                   *)
(***************************************************************************)
PollExists(id) == id \in 1..Len(polls)
\* the read of a poll without the is_active filter
ActivePollExistsAnyState(id) == PollExists(id)

ActivePollExists(id) == PollExists(id) /\ polls[id].is_active

\* the rows of table among the given ones
Select(table, rows) == [r \in rows |-> table[r]]

VotesOfPoll(pollId) ==
    Select(votes, {r \in DOMAIN votes : r.poll_id = pollId})
VotesOfUser(pollId, uid) ==
    Select(votes, {r \in DOMAIN votes : r.poll_id = pollId /\ r.user_id = uid})

\* .single(): data is the row when exactly one row matches, null otherwise
ExistingVote(pollId, uid) == BagCardinality(VotesOfUser(pollId, uid)) = 1

RECURSIVE BagToSeq(_)
BagToSeq(b) ==
    IF DOMAIN b = {} THEN <<>>
    ELSE LET r == CHOOSE x \in DOMAIN b : TRUE
             rest == IF b[r] = 1 THEN [x \in DOMAIN b \ {r} |-> b[x]]
                     ELSE [b EXCEPT ![r] = b[r] - 1]
         IN  <<r>> \o BagToSeq(rest)

\* getVoteCounts, lines 603-609: the reduce over the rows read, starting from []
RECURSIVE ReduceCounts(_, _)
ReduceCounts(rows, counts) ==
    IF rows = <<>> THEN counts
    ELSE LET index == Head(rows).option_index
         IN  ReduceCounts(Tail(rows),
                 IF index >= 0 /\ index < Len(counts)
                 THEN [counts EXCEPT ![index + 1] = counts[index + 1] + 1]
                 ELSE counts)

\* rows ordered by created_at, ascending
RECURSIVE OrderAsc(_)
OrderAsc(ids) ==
    IF ids = {} THEN <<>>
    ELSE LET k == CHOOSE x \in ids :
                      \A y \in ids : polls[x].created_at <= polls[y].created_at
         IN  <<polls[k]>> \o OrderAsc(ids \ {k})

\* rows ordered by created_at, descending
RECURSIVE OrderDesc(_)
OrderDesc(ids) ==
    IF ids = {} THEN <<>>
    ELSE LET k == CHOOSE x \in ids :
                      \A y \in ids : polls[y].created_at <= polls[x].created_at
         IN  <<polls[k]>> \o OrderDesc(ids \ {k})

(***************************************************************************)
(* The read handlers: what each returns in the current state.              *)
(* getUserPolls, lines 282-298; getPollById, lines 320-331;                *)
(* getVoteCounts, lines 592-614.                                           *)
(***************************************************************************)
NoData == <<>>

\* the listing without the check for a missing user
UserPollsResultNoCheck(id) ==
    [polls |-> OrderDesc({k \in 1..Len(polls) :
                             /\ polls[k].created_by = UserOf(id)
                             /\ polls[k].is_active}),
     error |-> NoError]

UserPollsResult(id) ==
    IF UserOf(id) = NullUser
    THEN [polls |-> <<>>, error |-> E_NotAuthenticated]
    ELSE [polls |-> OrderDesc({k \in 1..Len(polls) :
                                   /\ polls[k].created_by = UserOf(id)
                                   /\ polls[k].is_active}),
          error |-> NoError]

\* the read without the is_active filter
PollByIdResultAnyState(pollId) ==
    IF PollExists(pollId)
    THEN [poll |-> polls[pollId], error |-> NoError]
    ELSE [poll |-> NoData, error |-> E_NoSingleRow]

PollByIdResult(pollId) ==
    IF ActivePollExists(pollId)
    THEN [poll |-> polls[pollId], error |-> NoError]
    ELSE [poll |-> NoData, error |-> E_NoSingleRow]

RECURSIVE SumSeq(_)
SumSeq(counts) == IF counts = <<>> THEN 0 ELSE Head(counts) + SumSeq(Tail(counts))

\* a total taken from the counts instead of from the rows read
VoteCountsResultTotalOfCounts(pollId) ==
    LET counts == ReduceCounts(BagToSeq(VotesOfPoll(pollId)), <<>>)
    IN  [voteCounts |-> counts, totalVotes |-> SumSeq(counts), error |-> NoError]

VoteCountsResult(pollId) ==
    [voteCounts |-> ReduceCounts(BagToSeq(VotesOfPoll(pollId)), <<>>),
     totalVotes |-> BagCardinality(VotesOfPoll(pollId)),
     error |-> NoError]

(***************************************************************************)
(* ret: the handler that returned last, and what it returned.              *)
(***************************************************************************)
Returns(op, error, data) == ret' = [op |-> op, error |-> error, data |-> data]

\* whether the data store performs a write, or reports an error
StoreOutcomes == BOOLEAN

Idle == [pc |-> "idle"]
Slots == {1, 2}

GetUserPolls(id) ==
    /\ Returns("getUserPolls", UserPollsResult(id).error, UserPollsResult(id).polls)
    /\ UNCHANGED <<polls, votes, okVotes, form, calls, auth>>

GetPollById(pollId) ==
    /\ Returns("getPollById", PollByIdResult(pollId).error, PollByIdResult(pollId).poll)
    /\ UNCHANGED <<polls, votes, okVotes, form, calls, auth>>

(***************************************************************************)
(* createPoll, lines 193-260.  One round trip to the store.                *)
(***************************************************************************)
\* the early returns without the check for a missing user
CreatePollErrorNoLogin(id, f) ==
    LET invalid == ValidateForm(f.title, f.options) IN
    IF invalid # NoError THEN invalid
    ELSE IF UserErrorOf(id) THEN E_Auth
    ELSE NoError

CreatePollError(id, f) ==
    LET invalid == ValidateForm(f.title, f.options) IN
    IF invalid # NoError THEN invalid
    ELSE IF UserErrorOf(id) THEN E_Auth
    ELSE IF UserOf(id) = NullUser THEN E_LoginCreate
    ELSE NoError

\* the row with the options as submitted
NewPollRawOptions(uid, f) ==
    [id |-> Len(polls) + 1,
     title |-> Trim(f.title),
     options |-> FilterBoolean(f.options),
     created_by |-> uid,
     is_active |-> TRUE,
     created_at |-> Len(polls) + 1]

NewPoll(uid, f) ==
    [id |-> Len(polls) + 1,
     title |-> Trim(f.title),
     options |-> UniqueOptions(FilterBoolean(f.options)),
     created_by |-> uid,
     is_active |-> TRUE,
     created_at |-> Len(polls) + 1]

\* lines 245-256
InsertPoll(uid, f, ok) ==
    IF ok THEN polls' = Append(polls, NewPoll(uid, f))
    ELSE UNCHANGED polls

\* createPoll while the polls table holds fewer than max rows
CreatePollUpTo(id, f, max) ==
    /\ LET error == CreatePollError(id, f) IN
       IF error # NoError
       THEN /\ Returns("createPoll", error, NoData)
            /\ UNCHANGED polls
       ELSE /\ Len(polls) < max
            /\ \E ok \in StoreOutcomes :
                   /\ InsertPoll(UserOf(id), f, ok)
                   /\ Returns("createPoll", IF ok THEN NoError ELSE E_Store, NoData)
    /\ UNCHANGED <<votes, okVotes, form, calls, auth>>

CreatePoll(id, f) == CreatePollUpTo(id, f, MaxPolls)

(***************************************************************************)
(* submitVote, lines 356-401.  Three round trips: the poll, the existing   *)
(* vote (for a user), the insert.                                          *)
(***************************************************************************)
\* the poll read among the active polls only
SubmitVoteReadErrorActiveOnly(pollId, optionIndex) ==
    IF ~ActivePollExists(pollId) THEN E_PollNotFound
    ELSE IF optionIndex < 0 \/ optionIndex >= Len(polls[pollId].options)
    THEN E_InvalidOption
    ELSE NoError

\* the index check with the upper limit off by one
SubmitVoteReadErrorOffByOne(pollId, optionIndex) ==
    IF ~PollExists(pollId) THEN E_PollNotFound
    ELSE IF optionIndex < 0 \/ optionIndex > Len(polls[pollId].options)
    THEN E_InvalidOption
    ELSE NoError

\* the index check without the check that the poll was found
SubmitVoteReadErrorNoPollCheck(pollId, optionIndex) ==
    IF PollExists(pollId)
       /\ (optionIndex < 0 \/ optionIndex >= Len(polls[pollId].options))
    THEN E_InvalidOption
    ELSE NoError

\* lines 362-375: the poll is read by id alone, then the index is checked
SubmitVoteReadError(pollId, optionIndex) ==
    IF ~PollExists(pollId) THEN E_PollNotFound
    ELSE IF optionIndex < 0 \/ optionIndex >= Len(polls[pollId].options)
    THEN E_InvalidOption
    ELSE NoError

SubmitVoteDuplicateErrorSkipped(uid, pollId) == NoError

\* the existence check made for the absent user as well
SubmitVoteDuplicateErrorAnyUser(uid, pollId) ==
    IF ExistingVote(pollId, uid) THEN E_AlreadyVoted ELSE NoError

\* lines 377-389
SubmitVoteDuplicateError(uid, pollId) ==
    IF uid # NullUser /\ ExistingVote(pollId, uid) THEN E_AlreadyVoted ELSE NoError

NewVote(uid, pollId, optionIndex) ==
    [poll_id |-> pollId, user_id |-> uid, option_index |-> optionIndex]

\* an insert under a uniqueness rule on (poll_id, user_id)
InsertVoteIfAbsent(uid, pollId, optionIndex, ok) ==
    IF ok /\ (uid = NullUser \/ BagCardinality(VotesOfUser(pollId, uid)) = 0)
    THEN votes' = votes (+) SetToBag({NewVote(uid, pollId, optionIndex)})
    ELSE UNCHANGED votes

\* an insert that stores the row also when the store reports an error
InsertVoteDespiteError(uid, pollId, optionIndex, ok) ==
    votes' = votes (+) SetToBag({NewVote(uid, pollId, optionIndex)})

\* lines 391-397
InsertVote(uid, pollId, optionIndex, ok) ==
    IF ok
    THEN votes' = votes (+) SetToBag({NewVote(uid, pollId, optionIndex)})
    ELSE UNCHANGED votes

\* lines 399-400; okVotes counts the calls on a poll that returned no error
SubmitVoteReturns(pollId, error) ==
    /\ Returns("submitVote", error, NoData)
    /\ okVotes' = IF error = NoError /\ pollId \in DOMAIN okVotes
                  THEN [okVotes EXCEPT ![pollId] = @ + 1]
                  ELSE okVotes

SubmitVoteError(id, pollId, optionIndex) ==
    LET error == SubmitVoteReadError(pollId, optionIndex) IN
    IF error # NoError THEN error
    ELSE SubmitVoteDuplicateError(UserOf(id), pollId)

\* submitVote while the votes table holds fewer than max rows
SubmitVoteUpTo(id, pollId, optionIndex, max) ==
    /\ LET error == SubmitVoteError(id, pollId, optionIndex) IN
       IF error # NoError
       THEN /\ SubmitVoteReturns(pollId, error)
            /\ UNCHANGED votes
       ELSE /\ BagCardinality(votes) < max
            /\ \E ok \in StoreOutcomes :
                   /\ InsertVote(UserOf(id), pollId, optionIndex, ok)
                   /\ SubmitVoteReturns(pollId, IF ok THEN NoError ELSE E_Store)
    /\ UNCHANGED <<polls, form, calls, auth>>

SubmitVote(id, pollId, optionIndex) ==
    SubmitVoteUpTo(id, pollId, optionIndex, MaxVotes)

(***************************************************************************)
(* deletePoll, lines 425-464.  Two round trips: the read, the update.      *)
(***************************************************************************)
\* the read without the comparison of created_by
OwnershipErrorAnyUser(uid, pollId, unauthorized) ==
    IF ~ActivePollExists(pollId) THEN E_PollNotFound ELSE NoError

\* lines 438-452 and 544-558: the poll is read by id among the active polls
OwnershipError(uid, pollId, unauthorized) ==
    IF ~ActivePollExists(pollId) THEN E_PollNotFound
    ELSE IF polls[pollId].created_by # uid THEN unauthorized
    ELSE NoError

DeletePollError(id, pollId) ==
    IF UserErrorOf(id) \/ UserOf(id) = NullUser THEN E_AuthRequired
    ELSE OwnershipError(UserOf(id), pollId, E_UnauthorizedDelete)

\* the update without the filter on id
SoftDeleteOfOwner(uid, pollId, ok) ==
    IF ok
    THEN polls' = [k \in 1..Len(polls) |->
                      IF polls[k].created_by = uid
                      THEN [polls[k] EXCEPT !.is_active = FALSE]
                      ELSE polls[k]]
    ELSE UNCHANGED polls

\* an update that sets is_active to its opposite
SoftDeleteToggle(uid, pollId, ok) ==
    IF ok
    THEN polls' = [k \in 1..Len(polls) |->
                      IF polls[k].id = pollId /\ polls[k].created_by = uid
                      THEN [polls[k] EXCEPT !.is_active = ~polls[k].is_active]
                      ELSE polls[k]]
    ELSE UNCHANGED polls

\* lines 455-459: update ... where id = pollId and created_by = user.id
SoftDelete(uid, pollId, ok) ==
    IF ok
    THEN polls' = [k \in 1..Len(polls) |->
                      IF polls[k].id = pollId /\ polls[k].created_by = uid
                      THEN [polls[k] EXCEPT !.is_active = FALSE]
                      ELSE polls[k]]
    ELSE UNCHANGED polls

DeletePoll(id, pollId) ==
    /\ LET error == DeletePollError(id, pollId) IN
       IF error # NoError
       THEN /\ Returns("deletePoll", error, NoData)
            /\ UNCHANGED polls
       ELSE \E ok \in StoreOutcomes :
                /\ SoftDelete(UserOf(id), pollId, ok)
                /\ Returns("deletePoll", IF ok THEN NoError ELSE E_Store, NoData)
    /\ UNCHANGED <<votes, okVotes, form, calls, auth>>

(***************************************************************************)
(* updatePoll, lines 492-568.  Two round trips: the read, the update.      *)
(***************************************************************************)
UpdatePollError(id, pollId, f) ==
    LET invalid == ValidateForm(f.title, f.options) IN
    IF invalid # NoError THEN invalid
    ELSE IF UserErrorOf(id) THEN E_Auth
    ELSE IF UserOf(id) = NullUser THEN E_LoginUpdate
    ELSE OwnershipError(UserOf(id), pollId, E_UnauthorizedUpdate)

\* the update without the filter on id
WriteTitleOptionsOfOwner(uid, pollId, f, ok) ==
    IF ok
    THEN polls' = [k \in 1..Len(polls) |->
                      IF polls[k].created_by = uid
                      THEN [polls[k] EXCEPT
                               !.title = Trim(f.title),
                               !.options = UniqueOptions(FilterBoolean(f.options))]
                      ELSE polls[k]]
    ELSE UNCHANGED polls

\* the update with the title and the options as submitted
WriteTitleOptionsRaw(uid, pollId, f, ok) ==
    IF ok
    THEN polls' = [k \in 1..Len(polls) |->
                      IF polls[k].id = pollId /\ polls[k].created_by = uid
                      THEN [polls[k] EXCEPT
                               !.title = f.title,
                               !.options = FilterBoolean(f.options)]
                      ELSE polls[k]]
    ELSE UNCHANGED polls

\* lines 561-565: update ... where id = pollId and created_by = user.id
WriteTitleOptions(uid, pollId, f, ok) ==
    IF ok
    THEN polls' = [k \in 1..Len(polls) |->
                      IF polls[k].id = pollId /\ polls[k].created_by = uid
                      THEN [polls[k] EXCEPT
                               !.title = Trim(f.title),
                               !.options = UniqueOptions(FilterBoolean(f.options))]
                      ELSE polls[k]]
    ELSE UNCHANGED polls

\* The file declares updatePoll twice.  The declaration at lines 492-568
\* does not read the error of the update (line 567); the one at lines
\* 815-895, the same up to there, returns it (lines 889-894).  What the call
\* returns after the update is what either declaration returns.
UpdateWriteErrors(ok) == {NoError} \cup {IF ok THEN NoError ELSE E_Store}

UpdatePoll(id, pollId, f) ==
    /\ LET error == UpdatePollError(id, pollId, f) IN
       IF error # NoError
       THEN /\ Returns("updatePoll", error, NoData)
            /\ UNCHANGED polls
       ELSE \E ok \in StoreOutcomes :
                /\ WriteTitleOptions(UserOf(id), pollId, f, ok)
                /\ \E e \in UpdateWriteErrors(ok) : Returns("updatePoll", e, NoData)
    /\ UNCHANGED <<votes, okVotes, form, calls, auth>>

(***************************************************************************)
(* AuthProvider (src/app/lib/context/auth-context.tsx, lines 42-98).       *)
(* auth holds the component's state (session, user, loading), the mounted  *)
(* flag of its effect, whether the listener is subscribed, whether the     *)
(* getUser call of the effect is pending, and the sessions the identity    *)
(* provider has delivered to the listener, in order.                       *)
(***************************************************************************)
NullSession == "null"
Sessions == {"s1", "s2"}
AuthEvents == Sessions \cup {NullSession}

\* session?.user ?? null
SessionUser(s) ==
    IF s = "s1" THEN "u1" ELSE IF s = "s2" THEN "u2" ELSE NullUser

\* lines 44-46, 49, 68, 74: the state once the effect has run
AuthInit ==
    [session |-> NullSession, user |-> NullUser, loading |-> TRUE,
     mounted |-> TRUE, subscribed |-> TRUE, getUser |-> "pending",
     delivered |-> <<>>]

\* lines 74-77: the listener is called with a session or with null
OnAuthStateChange(s) ==
    /\ auth.subscribed
    /\ Len(auth.delivered) < MaxEvents
    /\ auth' = [auth EXCEPT !.session = s,
                            !.user = SessionUser(s),
                            !.delivered = Append(@, s)]
    /\ UNCHANGED <<polls, votes, ret, okVotes, form, calls>>

\* lines 56-65: supabase.auth.getUser() resolves with data.user = u (null
\* when there is none or on an error)
GetUserCompletes(u) ==
    /\ auth.getUser = "pending"
    /\ auth' = IF auth.mounted
               THEN [auth EXCEPT !.user = u,
                                 !.session = NullSession,
                                 !.loading = FALSE,
                                 !.getUser = "done"]
               ELSE [auth EXCEPT !.getUser = "done"]
    /\ UNCHANGED <<polls, votes, ret, okVotes, form, calls>>

\* lines 79-82: the cleanup of the effect
Unmount ==
    /\ auth.mounted
    /\ auth' = [auth EXCEPT !.mounted = FALSE, !.subscribed = FALSE]
    /\ UNCHANGED <<polls, votes, ret, okVotes, form, calls>>

NextAuth ==
    \/ \E s \in AuthEvents : OnAuthStateChange(s)
    \/ \E u \in Users \cup {NullUser} : GetUserCompletes(u)
    \/ Unmount

(***************************************************************************)
(* Inputs.                                                                 *)
(***************************************************************************)
A == <<"a">>
B == <<"b">>
PadA == <<" ", "a", " ">>
PadB == <<" ", "b">>
Blank == <<" ">>
Empty == <<>>
T1 == <<"t">>
PadT2 == <<" ", "u", " ">>

Form(title, options) == [title |-> title, options |-> options]
DefaultForm == Form(T1, <<A, B>>)
OtherForm == Form(PadT2, <<PadB, Empty, PadA>>)

PollIds == 1..MaxPolls
IndexInputs == -1..2
Creators == {"u1", NoUser, AuthErr}
Voters == Users \cup {NoUser}

(***************************************************************************)
(* Spec: the handlers called one at a time.                                *)
(***************************************************************************)
Init ==
    /\ polls = <<>>
    /\ votes = EmptyBag
    /\ ret = [op |-> "none", error |-> NoError, data |-> NoData]
    /\ okVotes = [k \in PollIds |-> 0]
    /\ form = DefaultForm
    /\ calls = [p \in Slots |-> Idle]
    /\ auth = AuthInit

Next ==
    \/ \E id \in Creators : CreatePoll(id, DefaultForm)
    \/ \E id \in Identities, k \in PollIds : UpdatePoll(id, k, OtherForm)
    \/ \E id \in Identities, k \in PollIds : DeletePoll(id, k)
    \/ \E id \in Voters, k \in PollIds, i \in IndexInputs : SubmitVote(id, k, i)

Spec == Init /\ [][Next]_vars

(***************************************************************************)
(* SpecForm: one submitted form, put to createPoll and updatePoll by every *)
(* identity, starting from an empty store or from a store that holds one   *)
(* poll created by u1 from DefaultForm.                                    *)
(***************************************************************************)
SeqsUpTo(S, n) == UNION {[1..m -> S] : m \in 0..n}

Letters == <<"a", "b", "c", "d", "e", "f", "g", "h", "i", "j", "k">>
Ten == [i \in 1..10 |-> <<Letters[i]>>]
Eleven == [i \in 1..11 |-> <<Letters[i]>>]
Long200 == Rep("x", 200)
Long201 == Rep("x", 201)
PadLong200 == <<" ">> \o Long200 \o <<" ">>
Title500 == Rep("q", 500)
Title501 == Rep("q", 501)
PadTitle499 == <<" ">> \o Rep("q", 499) \o <<" ">>

OptionAlphabet == {A, PadA, B, Blank, Empty}
SpecialLists ==
    {Ten, Eleven, Append(Ten, Empty), <<Empty>> \o Eleven,
     <<A, B, Empty>>, <<Empty, PadA, Empty, B>>, <<A, Empty, PadA>>,
     <<A, Long200>>, <<A, Long201>>, <<PadLong200, A>>, <<Blank, Long201>>, <<Long201, Blank>>}
OptionLists == SeqsUpTo(OptionAlphabet, MaxFormOptions) \cup SpecialLists
Titles == {T1, PadT2, Empty, Blank, Title500, Title501, PadTitle499}

Forms == {Form(t, o) : t \in Titles, o \in OptionLists}

DefaultPoll ==
    [id |-> 1, title |-> T1, options |-> <<A, B>>, created_by |-> "u1",
     is_active |-> TRUE, created_at |-> 1]

InitForm ==
    /\ polls \in {<<>>, <<DefaultPoll>>}
    /\ votes = EmptyBag
    /\ ret = [op |-> "none", error |-> NoError, data |-> NoData]
    /\ okVotes = [k \in PollIds |-> 0]
    /\ form \in Forms
    /\ calls = [p \in Slots |-> Idle]
    /\ auth = AuthInit

NextForm ==
    \/ \E id \in Identities : CreatePoll(id, form)
    \/ \E id \in Identities, k \in PollIds : UpdatePoll(id, k, form)
    \/ \E id \in Identities, k \in PollIds : DeletePoll(id, k)
    \/ \E k \in PollIds : GetPollById(k)
    \/ \E id \in Identities : GetUserPolls(id)

SpecForm == InitForm /\ [][NextForm]_vars

(***************************************************************************)
(* submitVote as its round trips to the store, for calls that overlap.     *)
(* calls[p] is the call in flight in slot p: the handler's locals and the  *)
(* round trip it makes next.                                               *)
(***************************************************************************)
\* lines 357-375: getUser, the read of the poll, the check of the index
SubmitVoteReadPoll(p, id, pollId, optionIndex) ==
    /\ calls[p] = Idle
    /\ LET error == SubmitVoteReadError(pollId, optionIndex) IN
       IF error # NoError
       THEN /\ SubmitVoteReturns(pollId, error)
            /\ UNCHANGED calls
       ELSE /\ calls' = [calls EXCEPT ![p] =
                           [pc |-> IF UserOf(id) # NullUser THEN "check" ELSE "insert",
                            uid |-> UserOf(id),
                            pollId |-> pollId,
                            optionIndex |-> optionIndex]]
            /\ UNCHANGED <<ret, okVotes>>
    /\ UNCHANGED <<polls, votes, form, auth>>

\* lines 378-389: the read of the user's existing vote
SubmitVoteCheckExisting(p) ==
    /\ calls[p].pc = "check"
    /\ LET error == SubmitVoteDuplicateError(calls[p].uid, calls[p].pollId) IN
       IF error # NoError
       THEN /\ SubmitVoteReturns(calls[p].pollId, error)
            /\ calls' = [calls EXCEPT ![p] = Idle]
       ELSE /\ calls' = [calls EXCEPT ![p].pc = "insert"]
            /\ UNCHANGED <<ret, okVotes>>
    /\ UNCHANGED <<polls, votes, form, auth>>

\* lines 391-400: the insert
SubmitVoteInsert(p) ==
    /\ calls[p].pc = "insert"
    /\ BagCardinality(votes) < MaxVotes
    /\ \E ok \in StoreOutcomes :
           /\ InsertVote(calls[p].uid, calls[p].pollId, calls[p].optionIndex, ok)
           /\ SubmitVoteReturns(calls[p].pollId, IF ok THEN NoError ELSE E_Store)
    /\ calls' = [calls EXCEPT ![p] = Idle]
    /\ UNCHANGED <<polls, form, auth>>

(***************************************************************************)
(* SpecConc: two submitVote calls whose round trips interleave.            *)
(***************************************************************************)
ConcVoters == {"u1", NoUser}
ConcIndexInputs == 0..2

NextConc ==
    \/ CreatePoll("u1", DefaultForm)
    \/ \E p \in Slots, id \in ConcVoters, k \in PollIds, i \in ConcIndexInputs :
           SubmitVoteReadPoll(p, id, k, i)
    \/ \E p \in Slots : SubmitVoteCheckExisting(p)
    \/ \E p \in Slots : SubmitVoteInsert(p)

SpecConc == Init /\ [][NextConc]_vars

(***************************************************************************)
(* updatePoll and deletePoll as their round trips to the store, for calls  *)
(* that overlap: the reads (getUser, the poll), then the update.           *)
(***************************************************************************)
\* lines 495-558: validation, getUser, the read of the poll and its owner
UpdatePollRead(p, id, pollId, f) ==
    /\ calls[p] = Idle
    /\ LET error == UpdatePollError(id, pollId, f) IN
       IF error # NoError
       THEN /\ Returns("updatePoll", error, NoData)
            /\ UNCHANGED calls
       ELSE /\ calls' = [calls EXCEPT ![p] =
                           [pc |-> "updateWrite", uid |-> UserOf(id),
                            pollId |-> pollId, form |-> f]]
            /\ UNCHANGED ret
    /\ UNCHANGED <<polls, votes, okVotes, form, auth>>

\* lines 560-567 and 883-894: the update and the return
UpdatePollWrite(p) ==
    /\ calls[p].pc = "updateWrite"
    /\ \E ok \in StoreOutcomes :
           /\ WriteTitleOptions(calls[p].uid, calls[p].pollId, calls[p].form, ok)
           /\ \E e \in UpdateWriteErrors(ok) : Returns("updatePoll", e, NoData)
    /\ calls' = [calls EXCEPT ![p] = Idle]
    /\ UNCHANGED <<votes, okVotes, form, auth>>

\* lines 428-452: getUser, the read of the poll and its owner
DeletePollRead(p, id, pollId) ==
    /\ calls[p] = Idle
    /\ LET error == DeletePollError(id, pollId) IN
       IF error # NoError
       THEN /\ Returns("deletePoll", error, NoData)
            /\ UNCHANGED calls
       ELSE /\ calls' = [calls EXCEPT ![p] =
                           [pc |-> "deleteWrite", uid |-> UserOf(id),
                            pollId |-> pollId]]
            /\ UNCHANGED ret
    /\ UNCHANGED <<polls, votes, okVotes, form, auth>>

\* lines 454-463: the update and the return
DeletePollWrite(p) ==
    /\ calls[p].pc = "deleteWrite"
    /\ \E ok \in StoreOutcomes :
           /\ SoftDelete(calls[p].uid, calls[p].pollId, ok)
           /\ Returns("deletePoll", IF ok THEN NoError ELSE E_Store, NoData)
    /\ calls' = [calls EXCEPT ![p] = Idle]
    /\ UNCHANGED <<votes, okVotes, form, auth>>

(***************************************************************************)
(* SpecMut: two stored polls of two users; updatePoll and deletePoll calls *)
(* of every identity, overlapping.                                         *)
(***************************************************************************)
OtherUserPoll ==
    [id |-> 2, title |-> T1, options |-> <<A, B>>, created_by |-> "u2",
     is_active |-> TRUE, created_at |-> 2]
MutPollIds == {1, 2}

InitMut ==
    /\ polls = <<DefaultPoll, OtherUserPoll>>
    /\ votes = EmptyBag
    /\ ret = [op |-> "none", error |-> NoError, data |-> NoData]
    /\ okVotes = [k \in PollIds |-> 0]
    /\ form = DefaultForm
    /\ calls = [p \in Slots |-> Idle]
    /\ auth = AuthInit

NextMut ==
    \/ \E p \in Slots, id \in Identities, k \in MutPollIds :
           UpdatePollRead(p, id, k, OtherForm)
    \/ \E p \in Slots : UpdatePollWrite(p)
    \/ \E p \in Slots, id \in Identities, k \in MutPollIds :
           DeletePollRead(p, id, k)
    \/ \E p \in Slots : DeletePollWrite(p)

SpecMut == InitMut /\ [][NextMut]_vars

(***************************************************************************)
(* SpecShrink: polls of three options, which updatePoll replaces by two,   *)
(* while submitVote calls are at any of their round trips.                 *)
(***************************************************************************)
C == <<"c">>
ThreeForm == Form(T1, <<A, B, C>>)
ShrinkVoters == {"u1"}
ShrinkIndexes == {0, 2}

NextShrink ==
    \/ CreatePoll("u1", ThreeForm)
    \/ \E k \in PollIds : UpdatePoll("u1", k, OtherForm)
    \/ \E p \in Slots, id \in ShrinkVoters, k \in PollIds, i \in ShrinkIndexes :
           SubmitVoteReadPoll(p, id, k, i)
    \/ \E p \in Slots : SubmitVoteCheckExisting(p)
    \/ \E p \in Slots : SubmitVoteInsert(p)

SpecShrink == Init /\ [][NextShrink]_vars

(***************************************************************************)
(* SpecLife: the calls of SpecMut on the two stored polls, overlapping,    *)
(* together with createPoll and with submitVote on the first poll.         *)
(***************************************************************************)
NextLife ==
    \/ \E p \in Slots, id \in Identities, k \in MutPollIds :
           UpdatePollRead(p, id, k, OtherForm)
    \/ \E p \in Slots : UpdatePollWrite(p)
    \/ \E p \in Slots, id \in Identities, k \in MutPollIds :
           DeletePollRead(p, id, k)
    \/ \E p \in Slots : DeletePollWrite(p)
    \/ CreatePollUpTo("u1", DefaultForm, Cardinality(MutPollIds) + MaxPolls)
    \/ SubmitVoteUpTo(NoUser, 1, 0, MaxVotes)

SpecLife == InitMut /\ [][NextLife]_vars

(***************************************************************************)
(* SpecAuth: the AuthProvider from its mount on.                           *)
(***************************************************************************)
SpecAuth == Init /\ [][NextAuth]_vars

(***************************************************************************)
(* SpecList: polls created, updated and deleted by two users, and listed.  *)
(***************************************************************************)
ListPollIds == 1..MaxListPolls
ListCreators == Users \cup {NoUser}

NextList ==
    \/ \E id \in ListCreators : CreatePollUpTo(id, DefaultForm, MaxListPolls)
    \/ \E id \in Users, k \in ListPollIds : UpdatePoll(id, k, OtherForm)
    \/ \E id \in Users, k \in ListPollIds : DeletePoll(id, k)
    \/ \E id \in Identities : GetUserPolls(id)

SpecList == Init /\ [][NextList]_vars

(***************************************************************************)
(* SpecFrame: two stored polls of one user, with or without votes;         *)
(* updatePoll, deletePoll and submitVote by every identity.                *)
(***************************************************************************)
SecondPoll ==
    [id |-> 2, title |-> T1, options |-> <<A, B>>, created_by |-> "u1",
     is_active |-> TRUE, created_at |-> 2]
FramePollIds == {1, 2}
FrameVoters == {"u1", NoUser}
FrameIndexes == {0}
StoredVotes ==
    SetToBag({NewVote("u2", 1, 1), NewVote(NullUser, 2, 0)})

InitFrame ==
    /\ polls = <<DefaultPoll, SecondPoll>>
    /\ votes \in {EmptyBag, StoredVotes}
    /\ ret = [op |-> "none", error |-> NoError, data |-> NoData]
    /\ okVotes = [k \in PollIds |-> 0]
    /\ form = DefaultForm
    /\ calls = [p \in Slots |-> Idle]
    /\ auth = AuthInit

NextFrame ==
    \/ \E id \in Identities, k \in FramePollIds : UpdatePoll(id, k, OtherForm)
    \/ \E id \in Identities, k \in FramePollIds : DeletePoll(id, k)
    \/ \E id \in FrameVoters, k \in FramePollIds, i \in FrameIndexes :
           SubmitVoteUpTo(id, k, i, BagCardinality(StoredVotes) + MaxVotes)

SpecFrame == InitFrame /\ [][NextFrame]_vars

(***************************************************************************)
(* Properties.                                                             *)
(***************************************************************************)
VoteCountOf(pollId, uid) == BagCardinality(VotesOfUser(pollId, uid))
TotalOf(pollId) == BagCardinality(VotesOfPoll(pollId))
\* the same two counts in a given votes table
RowsIn(table, pollId, uid) ==
    BagCardinality(Select(table, {r \in DOMAIN table :
                                     r.poll_id = pollId /\ r.user_id = uid}))
TotalIn(table, pollId) ==
    BagCardinality(Select(table, {r \in DOMAIN table : r.poll_id = pollId}))
ValidIndex(pollId, optionIndex) ==
    /\ PollExists(pollId)
    /\ optionIndex >= 0
    /\ optionIndex < Len(polls[pollId].options)

DuplicateRejected ==
    /\ \A k \in PollIds, u \in Users : VoteCountOf(k, u) <= 1
    /\ \A k \in PollIds, u \in Users, i \in IndexInputs :
           (VoteCountOf(k, u) >= 1 /\ ValidIndex(k, i))
               => SubmitVoteError(u, k, i) \in DuplicateVote

\* C1: with calls run one at a time, a user who has a vote on a poll gets
\* DuplicateVote for a further vote with a valid index on that poll, the call
\* that returns DuplicateVote inserts nothing, and no (poll, user) pair has
\* more than one vote.
C1_SequentialDuplicateRejected ==
    /\ []DuplicateRejected
    /\ [][(ret'.op = "submitVote" /\ ret'.error \in DuplicateVote) => votes' = votes
         ]_vars

C1_Witness ==
    /\ ret.op = "submitVote"
    /\ ret.error \in DuplicateVote
    /\ \E k \in PollIds, u \in Users : VoteCountOf(k, u) = 1

CountAt(counts, i) == IF i + 1 <= Len(counts) THEN counts[i + 1] ELSE 0
VotesAt(pollId, i) ==
    BagCardinality(Select(votes, {r \in DOMAIN votes :
                                     r.poll_id = pollId /\ r.option_index = i}))

C3_CountsMatchVotes ==
    \A k \in PollIds :
        PollExists(k) =>
            \A i \in 0..(Len(polls[k].options) - 1) :
                CountAt(VoteCountsResult(k).voteCounts, i) = VotesAt(k, i)

\* C4: totalVotes of getVoteCounts is the number of rows stored for the poll,
\* rows that voteCounts does not count included, and equals the number of
\* submitVote calls on the poll that returned success.
C4_TotalIsStoredRows ==
    \A k \in PollIds :
        /\ VoteCountsResult(k).error = NoError
        /\ VoteCountsResult(k).totalVotes = TotalOf(k)
        /\ VoteCountsResult(k).totalVotes = okVotes[k]
        /\ VoteCountsResult(k).totalVotes >= SumSeq(VoteCountsResult(k).voteCounts)

\* two successful votes on a poll, both outside what voteCounts counts
C4_Witness ==
    \E k \in PollIds :
        /\ okVotes[k] = 2
        /\ VoteCountsResult(k).totalVotes = 2
        /\ SumSeq(VoteCountsResult(k).voteCounts) < 2

\* What the specification calls a valid title and valid options: a title
\* that is not blank and has at most 500 characters, 2 to 10 options, each
\* non-empty and at most 200 characters after trimming, distinct after
\* trimming.
SpecValid(f) ==
    /\ Len(Trim(f.title)) > 0
    /\ Len(f.title) <= 500
    /\ Len(f.options) >= 2
    /\ Len(f.options) <= 10
    /\ \A i \in 1..Len(f.options) :
           /\ Len(Trim(f.options[i])) > 0
           /\ Len(Trim(f.options[i])) <= 200
    /\ \A i, j \in 1..Len(f.options) :
           i # j => Trim(f.options[i]) # Trim(f.options[j])

NotOwner(u, k) == ActivePollExists(k) /\ polls[k].created_by # u

\* C5 as stated: a call of updatePoll, whatever the form, or of deletePoll by
\* a user who is not the creator of the active poll returns Unauthorized.
C5_NonOwnerAlwaysUnauthorized ==
    [][\A u \in Users, k \in PollIds :
          (NotOwner(u, k) /\ (UpdatePoll(u, k, form) \/ DeletePoll(u, k)))
              => ret'.error \in Unauthorized
      ]_vars

NonOwnerRejected ==
    \A u \in Users, k \in PollIds :
        NotOwner(u, k) =>
            /\ DeletePollError(u, k) \in Unauthorized
            /\ SpecValid(form) => UpdatePollError(u, k, form) \in Unauthorized
            /\ UpdatePollError(u, k, form) \in Unauthorized \cup InvalidInput

\* C5: a user who is not the creator of an active poll gets Unauthorized from
\* deletePoll, and from updatePoll when title and options are valid; with
\* an invalid title or options updatePoll fails with InvalidInput or
\* Unauthorized, the form being validated before the ownership check.  A call
\* that fails with either error leaves the polls unchanged.
C5_NonOwnerRejected ==
    /\ []NonOwnerRejected
    /\ [][(/\ ret'.op \in {"updatePoll", "deletePoll"}
           /\ ret'.error \in Unauthorized \cup InvalidInput) => polls' = polls
         ]_vars

C5_Witness ==
    /\ ret.op = "updatePoll"
    /\ ret.error \in Unauthorized
    /\ SpecValid(form)
    /\ \E u \in Users, k \in PollIds : NotOwner(u, k)

\* getPollById and getUserPolls do not show poll k
Invisible(k) ==
    /\ PollByIdResult(k).error \in NotFound
    /\ \A id \in Identities :
           \A j \in 1..Len(UserPollsResult(id).polls) :
               UserPollsResult(id).polls[j].id # k

DeletedPollInvisible ==
    \A k \in 1..Len(polls) :
        /\ ~polls[k].is_active => Invisible(k)
        /\ VoteCountsResult(k).totalVotes = TotalIn(votes, k)

AnonymousNeverRejected ==
    \A k \in PollIds, i \in IndexInputs :
        ValidIndex(k, i) => SubmitVoteError(NoUser, k, i) = NoError

\* C7: submitVote without a user and with a valid index is never rejected,
\* whatever votes are stored (no existence check is made), and when it
\* returns success the votes table has one more row for the poll and the
\* index, with user_id null.
C7_AnonymousVotesUnconstrained ==
    /\ []AnonymousNeverRejected
    /\ [][(ret'.op = "submitVote" /\ ret'.error = NoError) =>
              \A k \in PollIds, i \in IndexInputs :
                  SubmitVote(NoUser, k, i) =>
                      votes' = votes (+) SetToBag({NewVote(NullUser, k, i)})
         ]_vars

\* two successful votes without a user on one poll
C7_Witness ==
    /\ ret.op = "submitVote"
    /\ ret.error = NoError
    /\ \E k \in PollIds : VoteCountOf(k, NullUser) = 2

TrimmedOptions(f) == [i \in 1..Len(f.options) |-> Trim(f.options[i])]

CreateThenGet ==
    /\ SpecValid(form) => \A u \in Users : CreatePollError(u, form) = NoError
    /\ \A k \in PollIds :
           ActivePollExists(k) =>
               /\ PollByIdResult(k).error = NoError
               /\ PollByIdResult(k).poll = polls[k]

\* C8: createPoll by a user with a valid title and valid options is not
\* rejected, and when it returns success the poll it has stored, which
\* getPollById then returns, has the trimmed options of the form in their
\* order, the user as created_by, and is active.
C8_CreateThenGetRoundTrip ==
    /\ []CreateThenGet
    /\ [][(ret'.op = "createPoll" /\ ret'.error = NoError /\ SpecValid(form)) =>
              \A u \in Users :
                  CreatePoll(u, form) =>
                      /\ Len(polls') = Len(polls) + 1
                      /\ polls'[Len(polls')].options = TrimmedOptions(form)
                      /\ polls'[Len(polls')].created_by = u
                      /\ polls'[Len(polls')].is_active
         ]_vars

\* a poll created from a valid form whose options needed trimming
C8_Witness ==
    /\ ret.op = "createPoll"
    /\ ret.error = NoError
    /\ SpecValid(form)
    /\ TrimmedOptions(form) # form.options
    /\ PollByIdResult(Len(polls)).poll.options = TrimmedOptions(form)

\* the options of a form that are counted: its non-empty entries
NumOptions(f) == Len(SelectSeq(f.options, LAMBDA o : o # <<>>))

CountAndTitleLimits ==
    \A id \in Identities :
        /\ (NumOptions(form) < 2 \/ NumOptions(form) > 10 \/ Len(form.title) > 500)
               => CreatePollError(id, form) \in InvalidInput
        /\ (NumOptions(form) >= 2 /\ NumOptions(form) <= 10 /\ Len(form.title) <= 500)
               => CreatePollError(id, form) \notin
                      {E_TooFewOptions, E_TooManyOptions, E_QuestionTooLong}
        /\ SpecValid(form) => CreatePollError(id, form) \notin InvalidInput

\* C9: createPoll fails with InvalidInput when the form has fewer than 2 or
\* more than 10 options (empty entries of the form not counted) or a title
\* of more than 500 characters, and then stores nothing; with 2 to 10 options
\* and a title of at most 500 characters it does not fail on these grounds,
\* and a valid form is not rejected as invalid.
C9_CountAndTitleLimits ==
    /\ []CountAndTitleLimits
    /\ [][(ret'.op = "createPoll" /\ ret'.error \in InvalidInput) => polls' = polls
         ]_vars

\* a poll created with 10 options and a title of 500 characters
C9_Witness ==
    /\ ret.op = "createPoll"
    /\ ret.error = NoError
    /\ Len(form.title) = 500
    /\ NumOptions(form) = 10
    /\ Len(polls[Len(polls)].options) = 10

\* C10 as stated, in its weakest reading: createPoll and updatePoll do not
\* return success when an option of the form, the empty string included, is
\* empty or longer than 200 characters after trimming.
C10_AnyBadOptionRejected ==
    (/\ ret.op \in {"createPoll", "updatePoll"}
     /\ \E i \in 1..Len(form.options) :
            \/ Len(Trim(form.options[i])) = 0
            \/ Len(Trim(form.options[i])) > 200)
        => ret.error # NoError

BadOption(o) == o # <<>> /\ (Len(Trim(o)) = 0 \/ Len(Trim(o)) > 200)

BadOptionRejected ==
    /\ (\E i \in 1..Len(form.options) : BadOption(form.options[i])) =>
           /\ \A id \in Identities :
                  /\ CreatePollError(id, form) \in InvalidInput
                  /\ \A k \in PollIds : UpdatePollError(id, k, form) \in InvalidInput
           /\ ret.op \in {"createPoll", "updatePoll"} => ret.error \in InvalidInput
    /\ SpecValid([form EXCEPT !.options = SelectSeq(form.options, LAMBDA o : o # <<>>)])
           => \A u \in Users : CreatePollError(u, form) = NoError

\* C10: createPoll and updatePoll return InvalidInput, and store nothing,
\* whenever a non-empty option of the form is whitespace only or longer than
\* 200 characters after trimming; options that are the empty string are
\* dropped before validation and do not make the form invalid.
C10_BadOptionRejected ==
    /\ []BadOptionRejected
    /\ [][(/\ ret'.op \in {"createPoll", "updatePoll"}
           /\ ret'.error \in InvalidInput) => polls' = polls
         ]_vars

\* updatePoll has rejected an option of more than 200 characters
C10_Witness ==
    /\ ret.op = "updatePoll"
    /\ ret.error = E_OptionTooLong
    /\ \E i \in 1..Len(form.options) : Len(Trim(form.options[i])) > 200

\* two options of the form (its non-empty entries) are equal after trimming
HasDuplicate(f) ==
    \E i, j \in 1..Len(f.options) :
        /\ i # j
        /\ f.options[i] # <<>>
        /\ f.options[j] # <<>>
        /\ Trim(f.options[i]) = Trim(f.options[j])

DuplicateOptionsRejected ==
    HasDuplicate(form) =>
        /\ \A id \in Identities :
               /\ CreatePollError(id, form) \in InvalidInput
               /\ \A k \in PollIds : UpdatePollError(id, k, form) \in InvalidInput
        /\ ret.op \in {"createPoll", "updatePoll"} => ret.error \in InvalidInput

\* C11: createPoll and updatePoll return InvalidInput, whoever calls them,
\* whenever two options of the form are equal after trimming, and the call
\* that returns InvalidInput leaves the polls unchanged.
C11_DuplicateOptionsRejected ==
    /\ []DuplicateOptionsRejected
    /\ [][(/\ ret'.op \in {"createPoll", "updatePoll"}
           /\ ret'.error \in InvalidInput
           /\ HasDuplicate(form)) => polls' = polls
         ]_vars

\* createPoll has rejected "a" and " a " as duplicates
C11_Witness ==
    /\ ret.op = "createPoll"
    /\ ret.error = E_DuplicateOptions
    /\ form.options = <<A, PadA>>

\* indices from below zero to past the largest number of options
WideIndexes == (0 - 2)..(MaxOptions + 1)

InvalidIndexRejected ==
    \A id \in Identities, k \in PollIds, i \in WideIndexes :
        (PollExists(k) /\ (i < 0 \/ i >= Len(polls[k].options)))
            => SubmitVoteError(id, k, i) \in InvalidInput

\* C12: submitVote on a stored poll with an index that is negative, equal to
\* the number of options or greater returns InvalidInput, with or without a
\* user, and the call that returns InvalidInput inserts no vote.
C12_InvalidIndexRejected ==
    /\ []InvalidIndexRejected
    /\ [][(ret'.op = "submitVote" /\ ret'.error \in InvalidInput) =>
              /\ votes' = votes
              /\ polls' = polls
         ]_vars

\* an index was rejected on a poll that has votes
C12_Witness ==
    /\ ret.op = "submitVote"
    /\ ret.error = E_InvalidOption
    /\ \E k \in PollIds : PollExists(k) /\ TotalOf(k) >= 1

\* the form without the entries submitted as the empty string
NonEmptyOptions(f) ==
    [f EXCEPT !.options = SelectSeq(f.options, LAMBDA o : o # <<>>)]

\* C13 as stated: createPoll without a user returns Unauthenticated whatever
\* the form.
C13_NoUserAlwaysUnauthenticated ==
    [][CreatePoll(NoUser, form) => ret'.error \in Unauthenticated]_vars

NoUserRejected ==
    IF SpecValid(NonEmptyOptions(form))
    THEN CreatePollError(NoUser, form) \in Unauthenticated
    ELSE CreatePollError(NoUser, form) \in InvalidInput

\* C13: createPoll without a user returns Unauthenticated when the title and
\* the options are valid and InvalidInput when they are not, the form being
\* validated before the user is read; in both cases no poll is stored.
C13_NoUserRejected ==
    /\ []NoUserRejected
    /\ [][(/\ ret'.op = "createPoll"
           /\ ret'.error \in Unauthenticated \cup InvalidInput) => polls' = polls
         ]_vars

\* createPoll has returned Unauthenticated for a valid form
C13_Witness ==
    /\ ret.op = "createPoll"
    /\ ret.error = E_LoginCreate
    /\ SpecValid(form)

\* C14 as stated: getUserPolls without a user returns no polls and no error.
C14_NoUserEmptyNoError ==
    [][GetUserPolls(NoUser) => (ret'.data = <<>> /\ ret'.error = NoError)]_vars

\* C14: getUserPolls without a user returns no polls together with the
\* error "Not authenticated", whatever polls are stored.
C14_NoUserEmptyWithError ==
    /\ \A id \in Identities :
           UserOf(id) = NullUser =>
               /\ UserPollsResult(id).polls = <<>>
               /\ UserPollsResult(id).error = E_NotAuthenticated
               /\ UserPollsResult(id).error \in Unauthenticated
    /\ (ret.op = "getUserPolls" /\ ret.error # NoError) =>
           (ret.data = <<>> /\ ret.error \in Unauthenticated)

\* getUserPolls has returned the error while an active poll is stored
C14_Witness ==
    /\ ret.op = "getUserPolls"
    /\ ret.error = E_NotAuthenticated
    /\ ret.data = <<>>
    /\ \E k \in PollIds : ActivePollExists(k)

OwnedActive(u) ==
    {k \in 1..Len(polls) : polls[k].created_by = u /\ polls[k].is_active}

ListedNewestFirst(rows, u) ==
    /\ Len(rows) = Cardinality(OwnedActive(u))
    /\ {rows[j].id : j \in 1..Len(rows)} = OwnedActive(u)
    /\ \A j \in 1..Len(rows) : rows[j] = polls[rows[j].id]
    /\ \A i, j \in 1..Len(rows) :
           i < j => rows[i].created_at > rows[j].created_at

\* C15: in every state getUserPolls for a user returns, without error, exactly
\* the stored polls created by the user that are active, each once, the more
\* recently created before the older.
C15_ListOwnedActiveNewestFirst ==
    \A u \in Users :
        /\ UserPollsResult(u).error = NoError
        /\ ListedNewestFirst(UserPollsResult(u).polls, u)

\* a listing of two polls returned while a third poll is stored
C15_Witness ==
    /\ ret.op = "getUserPolls"
    /\ ret.error = NoError
    /\ Len(ret.data) = 2
    /\ ret.data[1].created_at > ret.data[2].created_at
    /\ Len(polls) = 3
    /\ \E u \in Users : ret.data = UserPollsResult(u).polls

\* rows old and new differ at most in title and options
SameButTitleOptions(old, new) ==
    new = [old EXCEPT !.title = new.title, !.options = new.options]

\* C16: a call of updatePoll that returns success changes at most the title
\* and the options of the poll it names: the created_by, is_active and
\* created_at of that poll, every other poll and the votes are as before,
\* and no poll is added or removed.
C16_UpdateFrame ==
    [][(ret'.op = "updatePoll" /\ ret'.error = NoError) =>
           /\ votes' = votes
           /\ Len(polls') = Len(polls)
           /\ \A id \in Identities, t \in FramePollIds :
                  UpdatePoll(id, t, OtherForm) =>
                      /\ SameButTitleOptions(polls[t], polls'[t])
                      /\ \A k \in 1..Len(polls) : k # t => polls'[k] = polls[k]
      ]_vars

\* a poll with votes has just been given a new title and new options while
\* the other poll keeps the old ones
C16_Witness ==
    /\ ret.op = "updatePoll"
    /\ ret.error = NoError
    /\ votes # EmptyBag
    /\ \E t, k \in FramePollIds :
           /\ polls[t].title = Trim(OtherForm.title)
           /\ polls[t].options # polls[k].options
           /\ polls[k].title = T1

\* C17: a call of deletePoll that returns success sets is_active of the poll
\* it names to false and changes nothing else: the row stays, with its
\* title, options, created_by and created_at, every other poll is as before,
\* and the votes table is as before.
C17_DeleteFrame ==
    [][(ret'.op = "deletePoll" /\ ret'.error = NoError) =>
           /\ votes' = votes
           /\ Len(polls') = Len(polls)
           /\ \A id \in Identities, t \in FramePollIds :
                  DeletePoll(id, t) =>
                      /\ polls[t].is_active
                      /\ polls'[t] = [polls[t] EXCEPT !.is_active = FALSE]
                      /\ \A k \in 1..Len(polls) : k # t => polls'[k] = polls[k]
      ]_vars

\* a poll with votes has just been deleted; the other poll is active
C17_Witness ==
    /\ ret.op = "deletePoll"
    /\ ret.error = NoError
    /\ \E t, k \in FramePollIds :
           /\ ~polls[t].is_active
           /\ polls[t].options # <<>>
           /\ TotalOf(t) >= 1
           /\ polls[k].is_active

\* poll k is not stored, or is inactive and was created by u
MissingFor(u, k) ==
    \/ ~PollExists(k)
    \/ (~polls[k].is_active /\ polls[k].created_by = u)

MissingPollNotFound ==
    \A u \in Users, k \in PollIds :
        MissingFor(u, k) =>
            /\ DeletePollError(u, k) \in NotFound
            /\ UpdatePollError(u, k, OtherForm) \in NotFound
            /\ UpdatePollError(u, k, DefaultForm) \in NotFound

\* C18: deletePoll, and updatePoll with a valid form, called by a user on a
\* poll that is not stored, or by its creator on a poll that is inactive,
\* return NotFound, and the call that returns NotFound leaves polls and
\* votes unchanged; so a second deletePoll of a poll returns NotFound.
C18_MissingPollNotFound ==
    /\ []MissingPollNotFound
    /\ [][(/\ ret'.op \in {"updatePoll", "deletePoll"}
           /\ ret'.error \in NotFound) =>
              /\ polls' = polls
              /\ votes' = votes
         ]_vars

\* deletePoll has returned NotFound for a poll deleted before
C18_Witness ==
    /\ ret.op = "deletePoll"
    /\ ret.error \in NotFound
    /\ \A k \in PollIds : PollExists(k) /\ ~polls[k].is_active

VoteOnDeletedAccepted ==
    \A id \in Voters, k \in PollIds, i \in IndexInputs :
        (/\ PollExists(k)
         /\ ~polls[k].is_active
         /\ ValidIndex(k, i)
         /\ (UserOf(id) = NullUser \/ VoteCountOf(k, UserOf(id)) = 0))
            => SubmitVoteError(id, k, i) = NoError

WritersAreCreators ==
    \A p \in Slots :
        calls[p].pc \in {"updateWrite", "deleteWrite"} =>
            /\ calls[p].uid \in Users
            /\ calls[p].uid = polls[calls[p].pollId].created_by

\* C20: with updatePoll and deletePoll calls of several identities
\* overlapping, a poll's row changes only in the write step of an updatePoll
\* or deletePoll call on that poll made by the user in the poll's
\* created_by; created_by itself never changes, and a call by another user
\* or without a user never reaches its write step.
C20_OnlyCreatorChangesPoll ==
    /\ []WritersAreCreators
    /\ [][/\ Len(polls') = Len(polls)
          /\ \A k \in 1..Len(polls) :
                 /\ polls'[k].created_by = polls[k].created_by
                 /\ polls'[k] # polls[k] =>
                        \E p \in Slots :
                            /\ calls[p].pc \in {"updateWrite", "deleteWrite"}
                            /\ calls'[p] = Idle
                            /\ calls[p].pollId = k
                            /\ calls[p].uid = polls[k].created_by
         ]_vars

\* both polls changed, each by a call of its own creator, the calls of the
\* two users overlapping
C20_Witness ==
    /\ polls[1].title # T1
    /\ ~polls[2].is_active
    /\ \E p \in Slots : calls[p].pc = "updateWrite" /\ calls[p].uid = "u2"

\* C21: the title and the options of a poll do not change once its is_active
\* is false, also when an updatePoll and a deletePoll of the creator overlap.
C21_InactivePollNotChanged ==
    [][\A k \in 1..Len(polls) :
          ~polls[k].is_active =>
              /\ polls'[k].title = polls[k].title
              /\ polls'[k].options = polls[k].options
      ]_vars

\* C22: a call of createPoll, updatePoll, deletePoll or submitVote that
\* returns an error leaves polls and votes as they were, whether the error
\* comes from a check or from the write; and in every step the title of a
\* poll changes exactly when its options change.
C22_ErrorLeavesStoreUnchanged ==
    [][/\ ret'.error # NoError => (polls' = polls /\ votes' = votes)
       /\ \A k \in 1..Len(polls) :
              (polls'[k].title = polls[k].title)
                  <=> (polls'[k].options = polls[k].options)
      ]_vars

\* deletePoll has returned the error of its write on a poll that an earlier
\* updatePoll has changed, and the poll is as the update left it
C22_Witness ==
    /\ ret.op = "deletePoll"
    /\ ret.error = E_Store
    /\ \E k \in PollIds :
           /\ ActivePollExists(k)
           /\ polls[k].title = Trim(OtherForm.title)
           /\ polls[k].options = UniqueOptions(FilterBoolean(OtherForm.options))
           /\ TotalOf(k) >= 1

StoredPollValid(poll) ==
    /\ Len(poll.title) > 0
    /\ Len(poll.title) <= 500
    /\ Len(poll.options) >= 2
    /\ Len(poll.options) <= 10
    /\ \A i \in 1..Len(poll.options) :
           /\ Len(poll.options[i]) > 0
           /\ Len(poll.options[i]) <= 200
           /\ Trim(poll.options[i]) = poll.options[i]
    /\ \A i, j \in 1..Len(poll.options) :
           i # j => poll.options[i] # poll.options[j]

\* C23: in every state every stored poll has a title of 1 to 500
\* characters and 2 to 10 options, each of 1 to 200 characters and trimmed,
\* no two equal; createPoll and updatePoll, given any form, keep it so.
C23_StoredPollsValid ==
    \A k \in 1..Len(polls) : StoredPollValid(polls[k])

\* updatePoll has stored a form whose title and options needed trimming
C23_Witness ==
    /\ ret.op = "updatePoll"
    /\ ret.error = NoError
    /\ Trim(form.title) # form.title
    /\ \E i \in 1..Len(form.options) : Trim(form.options[i]) # form.options[i]
    /\ \E k \in PollIds :
           /\ PollExists(k)
           /\ polls[k].title = Trim(form.title)
           /\ polls[k].options = TrimmedOptions(NonEmptyOptions(form))

\* C24: every vote, at the step that inserts it, has an option_index from 0
\* to below the number of options its poll has at that step, also when an
\* updatePoll has run since the submitVote call read the options.
C24_IndexValidAtInsert ==
    [][\A p \in Slots :
          (calls[p].pc = "insert" /\ calls'[p] = Idle /\ votes' # votes) =>
              /\ calls[p].optionIndex >= 0
              /\ calls[p].optionIndex < Len(polls[calls[p].pollId].options)
      ]_vars

\* C25: in every step, whichever of createPoll, updatePoll, deletePoll and
\* submitVote takes it and whatever calls are in flight, every stored poll
\* stays stored and a poll whose is_active is false keeps is_active false.
C25_InactiveStaysInactive ==
    [][/\ Len(polls') >= Len(polls)
       /\ \A k \in 1..Len(polls) : ~polls[k].is_active => ~polls'[k].is_active
      ]_vars

\* the first poll is inactive and has a vote, the second poll is active, a
\* poll has been created, and updatePoll has just returned NotFound
C25_Witness ==
    /\ ~polls[1].is_active
    /\ polls[2].is_active
    /\ Len(polls) > 2
    /\ TotalOf(1) >= 1
    /\ ret.op = "updatePoll"
    /\ ret.error \in NotFound

VotesReferencePolls ==
    \A r \in DOMAIN votes : PollExists(r.poll_id)

\* C26: in every step every stored poll stays stored under its id and every
\* stored vote stays stored as it is (rows are only added), and in every
\* state the poll_id of every vote is the id of a stored poll.
C26_RowsOnlyAdded ==
    /\ []VotesReferencePolls
    /\ [][/\ Len(polls') >= Len(polls)
          /\ \A k \in 1..Len(polls) : polls'[k].id = polls[k].id
          /\ \A r \in DOMAIN votes : r \in DOMAIN votes' /\ votes'[r] >= votes[r]
         ]_vars

\* a poll with two votes has been updated and then deleted: its row and
\* both votes are stored
C26_Witness ==
    /\ ret.op = "deletePoll"
    /\ ret.error = NoError
    /\ \E k \in PollIds :
           /\ PollExists(k)
           /\ ~polls[k].is_active
           /\ polls[k].title = Trim(OtherForm.title)
           /\ TotalOf(k) = 2

\* C27: a call of createPoll, updatePoll, deletePoll or submitVote returns
\* error = null only if its write was applied: after createPoll a poll more
\* is stored, after submitVote a vote more, after deletePoll a poll that was
\* active is inactive, after updatePoll an active poll has the title and the
\* options of the form.
C27_NullErrorOnlyAfterWrite ==
    [][ret'.error = NoError =>
           /\ ret'.op = "createPoll" => Len(polls') = Len(polls) + 1
           /\ ret'.op = "submitVote" =>
                  BagCardinality(votes') = BagCardinality(votes) + 1
           /\ ret'.op = "deletePoll" =>
                  \E k \in 1..Len(polls) : polls[k].is_active /\ ~polls'[k].is_active
           /\ ret'.op = "updatePoll" =>
                  \E k \in 1..Len(polls) :
                      /\ polls[k].is_active
                      /\ polls'[k].title = Trim(OtherForm.title)
                      /\ polls'[k].options = UniqueOptions(FilterBoolean(OtherForm.options))
      ]_vars

\* C28: the existence check of a submitVote call of a user who has one or
\* more votes stored on the poll, two or more included, ends the call with
\* DuplicateVote.
C28_VoterWithVotesRejected ==
    [][\A p \in Slots :
          (/\ calls[p].pc = "check"
           /\ calls'[p] # calls[p]
           /\ VoteCountOf(calls[p].pollId, calls[p].uid) >= 1)
              => (calls'[p] = Idle /\ ret'.error \in DuplicateVote)
      ]_vars

\* C29 as stated: in every state the option_index of every stored vote is
\* below the number of options its poll has in that state.
C29_StoredIndexBelowCurrentOptions ==
    \A r \in DOMAIN votes :
        PollExists(r.poll_id) => r.option_index < Len(polls[r.poll_id].options)

StoredIndexWithinLimit ==
    \A r \in DOMAIN votes : r.option_index >= 0 /\ r.option_index < MaxOptions

\* C29: a submitVote call goes past its read of the poll only with an index
\* from 0 to below the number of options the poll has at that read, and the
\* vote it inserts has that index; updatePoll replaces the options and leaves
\* the votes as they are, so a stored index is below the largest number of
\* options a poll can have, not below the number its poll has now.
C29_IndexValidWhenRead ==
    /\ []StoredIndexWithinLimit
    /\ [][/\ \A p \in Slots :
                 (calls[p] = Idle /\ calls'[p] # Idle) =>
                     ValidIndex(calls'[p].pollId, calls'[p].optionIndex)
          /\ votes' # votes =>
                 /\ polls' = polls
                 /\ \E p \in Slots :
                        /\ calls[p].pc = "insert"
                        /\ votes' = votes (+) SetToBag({NewVote(calls[p].uid,
                                                                calls[p].pollId,
                                                                calls[p].optionIndex)})
          /\ polls' # polls => votes' = votes
         ]_vars

\* updatePoll has just returned success and a stored vote of the poll has an
\* index past the end of the poll's options
C29_Witness ==
    /\ ret.op = "updatePoll"
    /\ ret.error = NoError
    /\ \E r \in DOMAIN votes :
           /\ PollExists(r.poll_id)
           /\ r.option_index >= Len(polls[r.poll_id].options)
           /\ polls[r.poll_id].title = Trim(OtherForm.title)

LastDelivered == auth.delivered[Len(auth.delivered)]

ContextFollowsLastEvent ==
    (/\ auth.mounted
     /\ \E i \in 1..Len(auth.delivered) : auth.delivered[i] # NullSession)
        => /\ auth.session = LastDelivered
           /\ auth.user = SessionUser(LastDelivered)

\* C30: while the AuthProvider is mounted, once the listener has been given a
\* session, the session and the user of the context are those of the event
\* delivered last, whenever the getUser call of the effect completes; and no
\* state is set after the unmount.
C30_ContextFollowsLastEvent ==
    /\ []ContextFollowsLastEvent
    /\ [][~auth.mounted =>
              /\ auth'.session = auth.session
              /\ auth'.user = auth.user
              /\ auth'.loading = auth.loading
         ]_vars

====
